---------------------------- MODULE Spec2Model ----------------------------
(***************************************************************************)
(* Gemini-3-Inspector: the DetectionResult component (grouping of model    *)
(* detections per image, box geometry, selected image) and the prompt      *)
(* fields of App (usePersistentString / useHistory over localStorage).     *)
(*                                                                         *)
(* A number that arrives as a decimal numeral is held as an integer        *)
(* counting thousandths (1 is 1000, 0.5 is 500); the arithmetic of         *)
(* getBoxStyle is done on the IEEE-754 double that the numeral denotes.    *)
(* JavaScript values are records [t, n, s]: t the type tag, n the number   *)
(* (thousandths), s the characters of a string.                            *)
(***************************************************************************)
EXTENDS Integers, Sequences, FiniteSets, TLC

VARIABLES
    images,             \* App: images (the UploadedImage list), as image ids
    detections,         \* DetectionResult prop: the raw detection batch
    selectedIndex,      \* DetectionResult state
    selEffectPending,   \* the selection-reset effect is scheduled (its deps changed)
    view,               \* what the last render of DetectionResult produced
    value,              \* usePersistentString state, per prompt field
    history,            \* useHistory state, per prompt field
    storage,            \* localStorage: key -> text, or absent
    valuePending,       \* per field: the value-saving effect is scheduled
    historyPending,     \* per field: the history-saving effect is scheduled
    showHistory,        \* PromptSection state, per field: the version list is open
    crashed,            \* an exception escaped a state updater or a render of App
    status,             \* App: SendingStatus
    responseText,       \* App: the text of the last response, "" when cleared
    parsedDetections,   \* App: the parsed batch, or null
    errorMsg,           \* App: the message on screen, or null
    viewMode,           \* App: "visual", "raw" or "debug"
    pending,            \* the calls of handleSubmit that wait for the model
    runs,               \* how many runs were started
    lastGood,           \* history variable: what the last successful run left
    hoveredId,          \* DetectionResult state: the id under the pointer, or null
    decoding,           \* App: the file selections whose images are being decoded
    sentImages,         \* history variable: the image list of the last request
    hoveredAt           \* history variable: the image index shown when an id was last set

vars == <<images, detections, selectedIndex, selEffectPending, view,
          value, history, storage, valuePending, historyPending, showHistory,
          crashed, status, responseText, parsedDetections, errorMsg, viewMode,
          pending, runs, lastGood, hoveredId, hoveredAt, decoding, sentImages>>

viewVars == <<images, detections, selectedIndex, selEffectPending, view>>
fieldVars == <<value, history, storage, valuePending, historyPending,
               showHistory, crashed>>
runVars == <<status, responseText, parsedDetections, errorMsg, viewMode,
             pending, runs, lastGood, decoding, sentImages>>
hoverVars == <<hoveredId, hoveredAt>>

----------------------------------------------------------------------------
(* Bounds of the model *)

MaxBatch == 2       \* longest detection batch
MaxImages == 3      \* longest image list
MaxTyped == 11      \* most characters typed into a prompt field

----------------------------------------------------------------------------
(* JavaScript values *)

Unit == 10 * 100

JNum(n) == [t |-> "number", n |-> n, s |-> <<>>]
JInt(k) == JNum(k * Unit)
JNaN == [t |-> "NaN", n |-> 0, s |-> <<>>]
JStr(s) == [t |-> "string", n |-> 0, s |-> s]
JNull == [t |-> "null", n |-> 0, s |-> <<>>]
JUndefined == [t |-> "undefined", n |-> 0, s |-> <<>>]

\* DetectionResult line 11: no id is hovered
NoHover == hoveredId = JNull /\ hoveredAt = -1

Digits == {"0", "1", "2", "3", "4", "5", "6", "7", "8", "9"}
DigitValue(c) ==
    CASE c = "0" -> 0 [] c = "1" -> 1 [] c = "2" -> 2 [] c = "3" -> 3
      [] c = "4" -> 4 [] c = "5" -> 5 [] c = "6" -> 6 [] c = "7" -> 7
      [] c = "8" -> 8 [] c = "9" -> 9

IsWhite(c) == c = " "

RECURSIVE SkipWhite(_)
SkipWhite(s) ==
    IF s # <<>> /\ IsWhite(Head(s)) THEN SkipWhite(Tail(s)) ELSE s

RECURSIVE DigitPrefix(_)
DigitPrefix(s) ==
    IF s # <<>> /\ Head(s) \in Digits
    THEN <<Head(s)>> \o DigitPrefix(Tail(s))
    ELSE <<>>

RECURSIVE DecimalValue(_)
DecimalValue(ds) ==
    IF ds = <<>> THEN 0
    ELSE 10 * DecimalValue(SubSeq(ds, 1, Len(ds) - 1)) + DigitValue(ds[Len(ds)])

(* parseInt(string): leading white space is skipped, one sign is read, then *)
(* the longest run of decimal digits; no digit at all gives NaN.            *)
parseInt(s) ==
    LET t == SkipWhite(s)
        neg == t # <<>> /\ Head(t) = "-"
        u == IF t # <<>> /\ Head(t) \in {"-", "+"} THEN Tail(t) ELSE t
        ds == DigitPrefix(u)
    IN IF ds = <<>> THEN JNaN
       ELSE JInt(IF neg THEN 0 - DecimalValue(ds) ELSE DecimalValue(ds))

(* ToNumber as the relational operators apply it to a non-string operand. *)
ToNumber(v) ==
    CASE v.t = "number" -> v
      [] v.t = "null" -> JNum(0)
      [] OTHER -> JNaN

(* a >= b and a < b on numbers: false as soon as an operand is NaN *)
JsGe(a, b) ==
    LET x == ToNumber(a)
    IN x.t = "number" /\ x.n >= b * Unit

JsLt(a, b) ==
    LET x == ToNumber(a)
    IN x.t = "number" /\ x.n < b * Unit

----------------------------------------------------------------------------
(* DetectionResult: detectionsByImage *)

\* One entry of the batch: a detection object, or a JSON null in its place.
Detection(ix, conf, box) ==
    [e |-> "object", imageIndex |-> ix, confidence |-> conf, box_2d |-> box]
NullEntry ==
    [e |-> "null", imageIndex |-> JUndefined, confidence |-> 0,
     box_2d |-> [t |-> "undefined", c |-> <<>>]]

\* d.imageIndex: reading a property of null throws a TypeError
ReadThrows(d) == d.e = "null"

\* line 27: a string index goes through parseInt, anything else is kept
ResolveIndexFlipped(d) ==
    IF d.imageIndex.t = "string" THEN d.imageIndex ELSE parseInt(d.imageIndex.s)
ResolveIndex(d) ==
    IF d.imageIndex.t = "string" THEN parseInt(d.imageIndex.s) ELSE d.imageIndex

\* line 28
IndexAccepted(idx, n) == JsGe(idx, 0) /\ JsLt(idx, n)

\* lines 29-30: the Map gets the key when it is missing, then the push
PutFront(map, idx, d) ==
    IF idx \in DOMAIN map
    THEN [map EXCEPT ![idx] = <<d>> \o @]
    ELSE [k \in DOMAIN map \cup {idx} |-> IF k = idx THEN <<d>> ELSE map[k]]
Put(map, idx, d) ==
    IF idx \in DOMAIN map
    THEN [map EXCEPT ![idx] = Append(@, d)]
    ELSE [k \in DOMAIN map \cup {idx} |-> IF k = idx THEN <<d>> ELSE map[k]]

\* line 23: an empty array for every image position
EmptyGroups(n) == [k \in {JInt(i) : i \in 0 .. n - 1} |-> <<>>]

\* lines 25-32: forEach over the batch; a throw ends it
RECURSIVE GroupFrom(_, _, _)
GroupFrom(acc, dets, n) ==
    IF dets = <<>> \/ acc.threw THEN acc
    ELSE LET d == Head(dets)
         IN IF ReadThrows(d)
            THEN [acc EXCEPT !.threw = TRUE]
            ELSE LET idx == ResolveIndex(d)
                 IN GroupFrom(
                        IF IndexAccepted(idx, n)
                        THEN [acc EXCEPT !.map = Put(acc.map, idx, d)]
                        ELSE acc,
                        Tail(dets), n)

detectionsByImage(dets, imgs) ==
    GroupFrom([threw |-> FALSE, map |-> EmptyGroups(Len(imgs))], dets, Len(imgs))

----------------------------------------------------------------------------
(* IEEE-754 binary64 arithmetic, as far as getBoxStyle uses it *)

(* Natural numbers of any size are sequences of limbs, least significant   *)
(* first, without a zero at the top; <<>> is 0.  A double is a NaN, zero,  *)
(* or sign, m and e with value m * 2^e and m of exactly 53 bits.  Every    *)
(* operation rounds to nearest, ties to even.  Infinities, subnormal       *)
(* numbers and the sign of zero do not arise for the coordinates used and  *)
(* are not represented.  The operations are functions, so that an argument *)
(* is a value before the operation starts.                                 *)
LimbBits == 15
LimbBase == 2 ^ LimbBits
Precision == 53

Limbs == Seq(Nat)
Quotients == [q : Limbs, r : Nat]
Doubles == [nan : BOOLEAN, neg : BOOLEAN, m : Limbs, e : Int]

Norm[a \in Limbs] ==
    IF a # <<>> /\ a[Len(a)] = 0 THEN Norm[SubSeq(a, 1, Len(a) - 1)] ELSE a

NFromInt[k \in Nat] ==
    IF k = 0 THEN <<>> ELSE <<k % LimbBase>> \o NFromInt[k \div LimbBase]

\* a * c + carry, for c and carry below LimbBase
MulCarry[a \in Limbs, c \in Nat, carry \in Nat] ==
    IF a = <<>> THEN NFromInt[carry]
    ELSE <<(Head(a) * c + carry) % LimbBase>>
             \o MulCarry[Tail(a), c, (Head(a) * c + carry) \div LimbBase]

NMulSmall[a \in Limbs, c \in Nat] == Norm[MulCarry[a, c, 0]]

\* quotient and remainder of a by c, for c up to LimbBase
DivStep[hi \in Quotients, low \in Nat, c \in Nat] ==
    [q |-> <<(hi.r * LimbBase + low) \div c>> \o hi.q,
     r |-> (hi.r * LimbBase + low) % c]

DivFrom[a \in Limbs, c \in Nat] ==
    IF a = <<>> THEN [q |-> <<>>, r |-> 0]
    ELSE DivStep[DivFrom[Tail(a), c], Head(a), c]

Normalised[d \in Quotients] == [q |-> Norm[d.q], r |-> d.r]
NDivSmall[a \in Limbs, c \in Nat] == Normalised[DivFrom[a, c]]

LimbAt[a \in Limbs, i \in Nat] == IF i <= Len(a) THEN a[i] ELSE 0

AddCarry[a \in Limbs, b \in Limbs, i \in Nat, carry \in Nat] ==
    IF i > Len(a) /\ i > Len(b) THEN NFromInt[carry]
    ELSE <<(LimbAt[a, i] + LimbAt[b, i] + carry) % LimbBase>>
             \o AddCarry[a, b, i + 1,
                         (LimbAt[a, i] + LimbAt[b, i] + carry) \div LimbBase]

NAdd[a \in Limbs, b \in Limbs] == Norm[AddCarry[a, b, 1, 0]]

\* a - b for a >= b
SubBorrow[a \in Limbs, b \in Limbs, i \in Nat, borrow \in Nat] ==
    IF i > Len(a) THEN <<>>
    ELSE <<(a[i] - LimbAt[b, i] - borrow + LimbBase) % LimbBase>>
             \o SubBorrow[a, b, i + 1,
                          IF a[i] - LimbAt[b, i] - borrow < 0 THEN 1 ELSE 0]

NSub[a \in Limbs, b \in Limbs] == Norm[SubBorrow[a, b, 1, 0]]

LessFrom[a \in Limbs, b \in Limbs, i \in Nat] ==
    IF i = 0 THEN FALSE
    ELSE IF a[i] # b[i] THEN a[i] < b[i]
    ELSE LessFrom[a, b, i - 1]

NLess[a \in Limbs, b \in Limbs] ==
    IF Len(a) # Len(b) THEN Len(a) < Len(b) ELSE LessFrom[a, b, Len(a)]

IntBits[k \in Nat] == IF k = 0 THEN 0 ELSE 1 + IntBits[k \div 2]

BitLen[a \in Limbs] ==
    IF a = <<>> THEN 0 ELSE LimbBits * (Len(a) - 1) + IntBits[a[Len(a)]]

ShiftLeft[a \in Limbs, s \in Nat] ==
    IF a = <<>> THEN <<>>
    ELSE [i \in 1 .. s \div LimbBits |-> 0] \o NMulSmall[a, 2 ^ (s % LimbBits)]

ShiftRight[a \in Limbs, s \in Nat] ==
    NDivSmall[SubSeq(a, s \div LimbBits + 1, Len(a)), 2 ^ (s % LimbBits)].q

LowBits[a \in Limbs, s \in Nat] == NSub[a, ShiftLeft[ShiftRight[a, s], s]]

\* round n (and a little more when sticky) to 53 bits: the mantissa and the
\* change of the exponent
RoundUp[q \in Limbs, rem \in Limbs, half \in Limbs, sticky \in BOOLEAN] ==
    NLess[half, rem] \/ (rem = half /\ (sticky \/ q[1] % 2 = 1))

Carried[m \in Limbs, d \in Int] ==
    IF BitLen[m] > Precision THEN [m |-> ShiftRight[m, 1], x |-> d + 1]
    ELSE [m |-> m, x |-> d]

RoundDown[n \in Limbs, d \in Nat, sticky \in BOOLEAN] ==
    Carried[IF RoundUp[ShiftRight[n, d], LowBits[n, d], ShiftLeft[<<1>>, d - 1], sticky]
            THEN NAdd[ShiftRight[n, d], <<1>>]
            ELSE ShiftRight[n, d],
            d]

RoundNat[n \in Limbs, sticky \in BOOLEAN] ==
    IF BitLen[n] <= Precision
    THEN [m |-> ShiftLeft[n, Precision - BitLen[n]], x |-> BitLen[n] - Precision]
    ELSE RoundDown[n, BitLen[n] - Precision, sticky]

DNaN == [nan |-> TRUE, neg |-> FALSE, m |-> <<>>, e |-> 0]
DZero == [nan |-> FALSE, neg |-> FALSE, m |-> <<>>, e |-> 0]

Rounded[neg \in BOOLEAN, r \in [m : Limbs, x : Int], e \in Int] ==
    [nan |-> FALSE, neg |-> neg, m |-> r.m, e |-> e + r.x]

\* the double nearest to n * 2^e
MakeDouble[neg \in BOOLEAN, n \in Limbs, e \in Int, sticky \in BOOLEAN] ==
    IF n = <<>> THEN DZero ELSE Rounded[neg, RoundNat[n, sticky], e]

Scaled[neg \in BOOLEAN, d \in Quotients, e \in Int] ==
    MakeDouble[neg, d.q, e, d.r # 0]

\* the double that a decimal numeral of k thousandths denotes
ToDouble[k \in Int] ==
    IF k = 0 THEN DZero
    ELSE Scaled[k < 0,
                NDivSmall[ShiftLeft[NFromInt[IF k < 0 THEN 0 - k ELSE k],
                                    5 * LimbBits],
                          1000],
                0 - 5 * LimbBits]

IsZero[a \in Doubles] == ~a.nan /\ a.m = <<>>

\* a + b for doubles that are not NaN, A and B their mantissas at exponent e
AddAligned[a \in Doubles, b \in Doubles, A \in Limbs, B \in Limbs, e \in Int] ==
    IF a.neg = b.neg THEN MakeDouble[a.neg, NAdd[A, B], e, FALSE]
    ELSE IF A = B THEN DZero
    ELSE IF NLess[B, A] THEN MakeDouble[a.neg, NSub[A, B], e, FALSE]
    ELSE MakeDouble[b.neg, NSub[B, A], e, FALSE]

Lower[x \in Int, y \in Int] == IF x < y THEN x ELSE y

DAdd[a \in Doubles, b \in Doubles] ==
    IF IsZero[a] THEN b
    ELSE IF IsZero[b] THEN a
    ELSE AddAligned[a, b,
                    ShiftLeft[a.m, a.e - Lower[a.e, b.e]],
                    ShiftLeft[b.m, b.e - Lower[a.e, b.e]],
                    Lower[a.e, b.e]]

DNeg[a \in Doubles] == IF IsZero[a] THEN a ELSE [a EXCEPT !.neg = ~@]

\* a < b for doubles that are not NaN
MagLess[a \in Doubles, b \in Doubles] ==
    a.e < b.e \/ (a.e = b.e /\ NLess[a.m, b.m])

DLess[a \in Doubles, b \in Doubles] ==
    IF IsZero[a] THEN ~IsZero[b] /\ ~b.neg
    ELSE IF IsZero[b] THEN a.neg
    ELSE IF a.neg # b.neg THEN a.neg
    ELSE IF a.neg THEN MagLess[b, a]
    ELSE MagLess[a, b]

\* the value of a JavaScript number of the model (thousandths) as a double
AsDouble(v) == IF v.t = "number" THEN ToDouble[v.n] ELSE DNaN

----------------------------------------------------------------------------
(* DetectionResult: getBoxStyle *)

\* box_2d as it arrives: an array of values, or no array at all
BoxArray(c) == [t |-> "array", c |-> c]
BoxMissing == [t |-> "undefined", c |-> <<>>]
BoxNotArray == [t |-> "number", c |-> <<>>]

\* line 66: destructuring needs an iterable
DestructureThrows(box) == box.t # "array"

\* StringToNumber on the characters used here: optional sign and digits
StringToNumber(s) ==
    LET t == SkipWhite(s)
        neg == t # <<>> /\ Head(t) = "-"
        u == IF t # <<>> /\ Head(t) \in {"-", "+"} THEN Tail(t) ELSE t
        ds == DigitPrefix(u)
    IN IF t = <<>> THEN JNum(0)
       ELSE IF ds = <<>> \/ SkipWhite(SubSeq(u, Len(ds) + 1, Len(u))) # <<>> THEN JNaN
       ELSE JInt(IF neg THEN 0 - DecimalValue(ds) ELSE DecimalValue(ds))

\* lines 69-72: Number(x)
Number(v) ==
    CASE v.t = "number" -> v
      [] v.t = "null" -> JNum(0)
      [] v.t = "string" -> StringToNumber(v.s)
      [] OTHER -> JNaN

Coord(box, i) == AsDouble(Number(IF i <= Len(box.c) THEN box.c[i] ELSE JUndefined))

\* lines 78-91: the arithmetic of the two branches, in doubles
JsSub(a, b) == IF a.nan \/ b.nan THEN DNaN ELSE DAdd[a, DNeg[b]]
JsTimes100(a) ==
    IF a.nan THEN DNaN ELSE MakeDouble[a.neg, NMulSmall[a.m, 100], a.e, FALSE]
JsOver100(a) ==
    IF a.nan THEN DNaN
    ELSE Scaled[a.neg, NDivSmall[ShiftLeft[a.m, LimbBits], 100], a.e - LimbBits]
JsOver10(a) ==
    IF a.nan THEN DNaN
    ELSE Scaled[a.neg, NDivSmall[ShiftLeft[a.m, LimbBits], 10], a.e - LimbBits]

\* line 76: x <= 1.5, false for NaN
SmallCoordStrict(a) == ~a.nan /\ DLess[a, ToDouble[(3 * Unit) \div 2]]
SmallCoord(a) == ~a.nan /\ ~DLess[ToDouble[(3 * Unit) \div 2], a]

\* A style is the numeral of a double followed by %: Number::toString gives
\* different doubles different numerals, so a style is held as its double.
\* lines 78-83: the box read as fractions of the image
NormalizedStyle(ymin, xmin, ymax, xmax) ==
    [top |-> JsTimes100(ymin), left |-> JsTimes100(xmin),
     width |-> JsTimes100(JsSub(xmax, xmin)),
     height |-> JsTimes100(JsSub(ymax, ymin))]

\* lines 86-92: the box read on the 0-1000 scale
ScaleStyle(ymin, xmin, ymax, xmax) ==
    [top |-> JsOver10(ymin), left |-> JsOver10(xmin),
     width |-> JsOver10(JsSub(xmax, xmin)),
     height |-> JsOver10(JsSub(ymax, ymin))]

\* lines 65-93, for a box that destructures
getBoxStyle(box) ==
    LET ymin == Coord(box, 1)
        xmin == Coord(box, 2)
        ymax == Coord(box, 3)
        xmax == Coord(box, 4)
    IN IF SmallCoord(ymin) /\ SmallCoord(xmin) /\ SmallCoord(ymax) /\ SmallCoord(xmax)
       THEN NormalizedStyle(ymin, xmin, ymax, xmax)
       ELSE ScaleStyle(ymin, xmin, ymax, xmax)

----------------------------------------------------------------------------
(* DetectionResult: the confidence tiers *)

\* confidence >= bound, both in thousandths, compared as doubles
AtLeast(confidence, bound) == ~DLess[ToDouble[confidence], ToDouble[bound]]

\* lines 38-39, 44-45, 50-51, 60-61, 251-252 and 261: the two thresholds
HighFrom == 850
MediumFrom == 600

\* lines 37-41, 43-47 and 49-53: the colour of the card, the border, the badge
getConfidenceColor(confidence) ==
    IF AtLeast(confidence, HighFrom) THEN "red"
    ELSE IF AtLeast(confidence, MediumFrom) THEN "orange"
    ELSE "yellow"

getConfidenceBorder(confidence) ==
    IF AtLeast(confidence, HighFrom) THEN "red"
    ELSE IF AtLeast(confidence, MediumFrom) THEN "orange"
    ELSE "yellow"

getConfidenceBadge(confidence) ==
    IF AtLeast(confidence, HighFrom) THEN "red"
    ELSE IF AtLeast(confidence, MediumFrom) THEN "orange"
    ELSE "yellow"

\* lines 59-63
getConfidenceLabel(score) ==
    IF AtLeast(score, HighFrom) THEN "HIGH CONFIDENCE"
    ELSE IF AtLeast(score, MediumFrom) THEN "MEDIUM CONFIDENCE"
    ELSE "LOW CONFIDENCE"

\* lines 251-253 and line 261: the classes written in place
InlinePill(confidence) ==
    IF AtLeast(confidence, HighFrom) THEN "red"
    ELSE IF AtLeast(confidence, MediumFrom) THEN "orange"
    ELSE "yellow"

InlineBar(confidence) ==
    IF AtLeast(confidence, HighFrom) THEN "red"
    ELSE IF AtLeast(confidence, MediumFrom) THEN "orange"
    ELSE "yellow"

\* lines 193-194, 232, 250-266: what one drawn detection shows of its tier
TiersOf(det) ==
    [border |-> getConfidenceBorder(det.confidence),
     badge |-> getConfidenceBadge(det.confidence),
     card |-> getConfidenceColor(det.confidence),
     pill |-> InlinePill(det.confidence),
     bar |-> InlineBar(det.confidence),
     label |-> getConfidenceLabel(det.confidence)]

----------------------------------------------------------------------------
(* DetectionResult: one render *)

\* line 100
safeIndexStrict(sel, n) == IF sel > n THEN 0 ELSE sel
safeIndex(sel, n) == IF sel >= n THEN 0 ELSE sel

\* line 106: detectionsByImage.get(safeIndex) || []
GroupAt(map, k) == IF JInt(k) \in DOMAIN map THEN map[JInt(k)] ELSE <<>>

NoGroups == [k \in {} |-> <<>>]

(* The render of DetectionResult for the given props and state: the memo   *)
(* (lines 20-34), the early return on an empty image list (line 95), the   *)
(* resolved index (line 100), the overlay boxes of the shown image (lines  *)
(* 190-205).  status is "threw" when an exception escapes the render,      *)
(* "null" when nothing is rendered.                                        *)
Render(imgs, dets, sel) ==
    LET memo == detectionsByImage(dets, imgs)
        n == Len(imgs)
        si == safeIndex(sel, n)
        shown == GroupAt(memo.map, si)
    IN IF memo.threw
       THEN [status |-> "threw", groups |-> NoGroups, safeIndex |-> -1,
             image |-> 0, styles |-> <<>>, tiers |-> <<>>]
       ELSE IF n = 0
       THEN [status |-> "null", groups |-> memo.map, safeIndex |-> -1,
             image |-> 0, styles |-> <<>>, tiers |-> <<>>]
       ELSE IF si + 1 \notin 1 .. n
       THEN [status |-> "null", groups |-> memo.map, safeIndex |-> si,
             image |-> 0, styles |-> <<>>, tiers |-> <<>>]
       ELSE IF \E i \in 1 .. Len(shown) : DestructureThrows(shown[i].box_2d)
       THEN [status |-> "threw", groups |-> memo.map, safeIndex |-> si,
             image |-> imgs[si + 1], styles |-> <<>>, tiers |-> <<>>]
       ELSE [status |-> "ok", groups |-> memo.map, safeIndex |-> si,
             image |-> imgs[si + 1],
             styles |-> [i \in 1 .. Len(shown) |-> getBoxStyle(shown[i].box_2d)],
             tiers |-> [i \in 1 .. Len(shown) |-> TiersOf(shown[i])]]

NotRendered ==
    [status |-> "none", groups |-> NoGroups, safeIndex |-> -1, image |-> 0,
     styles |-> <<>>, tiers |-> <<>>]

----------------------------------------------------------------------------
(* JSON text, character by character *)

Quote == "\""

\* the decimal numeral of a natural number, as Number.prototype.toString gives it
RECURSIVE Numeral(_)
Numeral(k) ==
    LET c == CHOOSE x \in Digits : DigitValue(x) = k % 10
    IN IF k < 10 THEN <<c>> ELSE Append(Numeral(k \div 10), c)

\* JSON.stringify of a scalar: a quoted string (the characters used here need
\* no escape), the numeral of a whole number, or null
StringifyScalar(v) ==
    CASE v.t = "string" -> <<Quote>> \o v.s \o <<Quote>>
      [] v.t = "number" -> Numeral(v.n \div Unit)
      [] OTHER -> <<"n", "u", "l", "l">>

RECURSIVE StringifyItems(_)
StringifyItems(items) ==
    IF items = <<>> THEN <<>>
    ELSE IF Len(items) = 1 THEN StringifyScalar(items[1])
    ELSE StringifyScalar(items[1]) \o <<",">> \o StringifyItems(Tail(items))

\* a value held by useHistory: an array of scalars, or what else JSON.parse gave
JArray(items) == [t |-> "array", n |-> 0, s |-> <<>>, items |-> items]
JScalar(v) == [t |-> v.t, n |-> v.n, s |-> v.s, items |-> <<>>]
JObject == [t |-> "object", n |-> 0, s |-> <<>>, items |-> <<>>]
\* an object of one property whose value is an array: s is the property name
JObjectWith(key, items) == [t |-> "object", n |-> 0, s |-> key, items |-> items]

JSONstringify(h) ==
    CASE h.t = "array" -> <<"[">> \o StringifyItems(h.items) \o <<"]">>
      [] h.t = "object" /\ h.s = <<>> -> <<"{", "}">>
      [] h.t = "object" /\ h.s # <<>> ->
             <<"{", Quote>> \o h.s \o <<Quote, ":", "[">>
                 \o StringifyItems(h.items) \o <<"]", "}">>
      [] OTHER -> StringifyScalar(h)

Failed(rest) == [ok |-> FALSE, v |-> JNull, rest |-> rest]
Parsed(v, rest) == [ok |-> TRUE, v |-> v, rest |-> rest]

RECURSIVE UpToQuote(_)
UpToQuote(s) ==
    IF s = <<>> \/ Head(s) = Quote THEN <<>> ELSE <<Head(s)>> \o UpToQuote(Tail(s))

\* One symbol of a text stands for the characters of a whole detection
\* object, {"imageIndex":k,"box_2d":[10,10,50,50],"confidence":0.5}, as the
\* response schema of geminiService.ts makes the model write it; JSON.parse
\* gives the object, held as the value [t |-> "detection", n |-> k].
DetectionSymbols == {"{0}", "{1}"}
DetectionSymbol(k) == IF k = 0 THEN "{0}" ELSE "{1}"
JDetection(c) ==
    [t |-> "detection", n |-> IF c = "{0}" THEN 0 ELSE 1, s |-> <<>>]

\* a string, a number without sign or fraction, null, or a detection object
\* at the head of s
ParseScalar(s) ==
    IF s = <<>> THEN Failed(s)
    ELSE IF Head(s) \in DetectionSymbols
    THEN Parsed(JDetection(Head(s)), Tail(s))
    ELSE IF Head(s) = Quote
    THEN LET body == UpToQuote(Tail(s))
         IN IF Len(body) + 2 > Len(s) THEN Failed(s)
            ELSE Parsed(JStr(body), SubSeq(s, Len(body) + 3, Len(s)))
    ELSE IF Head(s) \in Digits
    THEN LET ds == DigitPrefix(s)
         IN IF Len(ds) > 1 /\ Head(ds) = "0" THEN Failed(s)
            ELSE Parsed(JInt(DecimalValue(ds)), SubSeq(s, Len(ds) + 1, Len(s)))
    ELSE IF Len(s) >= 4 /\ SubSeq(s, 1, 4) = <<"n", "u", "l", "l">>
    THEN Parsed(JNull, SubSeq(s, 5, Len(s)))
    ELSE Failed(s)

\* the elements of an array after its "[" or after a ","
RECURSIVE ParseElements(_, _)
ParseElements(s, acc) ==
    LET e == ParseScalar(SkipWhite(s))
        after == SkipWhite(e.rest)
    IN IF ~e.ok \/ after = <<>> THEN Failed(s)
       ELSE IF Head(after) = "]" THEN Parsed(Append(acc, e.v), Tail(after))
       ELSE IF Head(after) = "," THEN ParseElements(Tail(after), Append(acc, e.v))
       ELSE Failed(s)

\* the rest of an array after its "["
ParseArrayBody(s) ==
    IF SkipWhite(s) # <<>> /\ Head(SkipWhite(s)) = "]"
    THEN Parsed(<<>>, Tail(SkipWhite(s)))
    ELSE ParseElements(s, <<>>)

\* an object of one property whose value is an array of scalars: the "}"
\* after the array, the array after the ":", the ":" after the name
ObjectClose(name, es) ==
    IF es.ok /\ SkipWhite(es.rest) # <<>> /\ Head(SkipWhite(es.rest)) = "}"
    THEN Parsed(JObjectWith(name, es.v), Tail(SkipWhite(es.rest)))
    ELSE Failed(es.rest)

ObjectValue(name, s) ==
    IF s # <<>> /\ Head(s) = "["
    THEN ObjectClose(name, ParseArrayBody(Tail(s)))
    ELSE Failed(s)

ObjectColon(key) ==
    IF key.ok /\ key.v.t = "string"
       /\ SkipWhite(key.rest) # <<>> /\ Head(SkipWhite(key.rest)) = ":"
    THEN ObjectValue(key.v.s, SkipWhite(Tail(SkipWhite(key.rest))))
    ELSE Failed(key.rest)

ArrayValue(es) == IF es.ok THEN Parsed(JArray(es.v), es.rest) ELSE Failed(es.rest)
ScalarValue(sc) == IF sc.ok THEN Parsed(JScalar(sc.v), sc.rest) ELSE Failed(sc.rest)

\* the value at the head of s
ParseValue(s) ==
    IF s = <<>> THEN Failed(s)
    ELSE IF Head(s) = "[" THEN ArrayValue(ParseArrayBody(Tail(s)))
    ELSE IF Len(s) >= 2 /\ SubSeq(s, 1, 2) = <<"{", "}">>
    THEN Parsed(JObject, SubSeq(s, 3, Len(s)))
    ELSE IF Head(s) = "{" THEN ObjectColon(ParseScalar(SkipWhite(Tail(s))))
    ELSE ScalarValue(ParseScalar(s))

Whole(r) ==
    IF r.ok /\ SkipWhite(r.rest) = <<>> THEN [ok |-> TRUE, v |-> r.v]
    ELSE [ok |-> FALSE, v |-> JArray(<<>>)]

\* JSON.parse on an array of scalars, an empty object, an object of one
\* array-valued property, or a scalar; ok is FALSE where it throws a
\* SyntaxError
JSONparse(text) == Whole(ParseValue(SkipWhite(text)))

----------------------------------------------------------------------------
(* App: the state of a run (lines 247-259) *)

\* parsedDetections: null, or the array that JSON.parse gave
NoBatch == [t |-> "null", items |-> <<>>]
BatchOf(items) == [t |-> "array", items |-> items]

\* errorMsg: null
NoError == "null"

\* history variable: no run has succeeded yet
NoGood == [some |-> FALSE, text |-> <<>>, parsed |-> NoBatch]

\* lines 247-259: the initial state of App, no call under way
RunIdle ==
    /\ status = "IDLE"
    /\ responseText = <<>>
    /\ parsedDetections = NoBatch
    /\ errorMsg = NoError
    /\ viewMode = "visual"
    /\ pending = {}
    /\ runs = 0
    /\ lastGood = NoGood
    /\ decoding = {}
    /\ sentImages = <<>>

----------------------------------------------------------------------------
(* App: usePersistentString and useHistory *)

Fields == {"role", "criteria", "attributes", "format"}

MAX_HISTORY == 10

\* localStorage entries of a field: <key> and <key>_history
Absent == [present |-> FALSE, text |-> <<>>]
Stored(text) == [present |-> TRUE, text |-> text]

\* DEFAULT_ROLE ... DEFAULT_FORMAT, as one short text
DefaultValue(f) == <<"d">>

\* lines 51-58: localStorage.getItem(key) ?? defaultValue
LoadValue(entry, f) == IF entry.present THEN entry.text ELSE DefaultValue(f)

\* lines 73-80: saved ? JSON.parse(saved) : [], and [] when that throws
LoadHistory(entry) ==
    IF ~entry.present \/ entry.text = <<>> THEN JArray(<<>>)
    ELSE LET r == JSONparse(entry.text)
         IN IF r.ok THEN r.v ELSE JArray(<<>>)

\* String.prototype.trim
RECURSIVE DropTrailingWhite(_)
DropTrailingWhite(s) ==
    IF s # <<>> /\ IsWhite(s[Len(s)])
    THEN DropTrailingWhite(SubSeq(s, 1, Len(s) - 1))
    ELSE s
NoTrim(s) == s
trim(s) == DropTrailingWhite(SkipWhite(s))

Take(s, n) == SubSeq(s, 1, IF Len(s) < n THEN Len(s) ELSE n)

\* prev[0], ...prev and prev.length of what history holds: an array, or a
\* string (iterated by character); anything else has no length to iterate
Iterable(h) == h.t \in {"array", "string"}
ItemsOf(h) ==
    IF h.t = "array" THEN h.items ELSE [i \in 1 .. Len(h.s) |-> JStr(<<h.s[i]>>)]

\* lines 95-99: the updater handed to setHistory throws on a history that is
\* neither null-safe nor iterable
UpdaterThrows(prev) == ~Iterable(prev)

CommitUpdateNoDedupe(prev, cur) ==
    JArray(Take(<<JStr(cur)>> \o ItemsOf(prev), MAX_HISTORY))
CommitUpdateKeepOne(prev, cur) ==
    IF ItemsOf(prev) # <<>> /\ ItemsOf(prev)[1] = JStr(cur) THEN prev
    ELSE JArray(Take(<<JStr(cur)>> \o ItemsOf(prev), MAX_HISTORY + 1))
CommitUpdate(prev, cur) ==
    IF ItemsOf(prev) # <<>> /\ ItemsOf(prev)[1] = JStr(cur) THEN prev
    ELSE JArray(Take(<<JStr(cur)>> \o ItemsOf(prev), MAX_HISTORY))

\* React has flushed the effects of the last render and App is on screen
FieldsSettled ==
    /\ ~crashed
    /\ \A f \in Fields : ~valuePending[f] /\ ~historyPending[f]

\* line 215: the textarea of a section takes input unless a run is loading
\* (a section is opened and closed at will, lines 136 and 209)
TextareaAlwaysEnabled == TRUE
TextareaEnabled == status # "LOADING"

\* setValue of usePersistentString (lines 51 and 60-66): the state is written
\* and the saving effect is scheduled when the value changed
WriteValueAndRecord(f, v) ==
    /\ value' = [value EXCEPT ![f] = v]
    /\ valuePending' = [valuePending EXCEPT ![f] = (v # value[f])]
    /\ history' = [history EXCEPT ![f] =
                       IF @.t = "array" /\ v # value[f]
                       THEN JArray(Take(<<JStr(v)>> \o @.items, MAX_HISTORY))
                       ELSE @]
    /\ historyPending' = [historyPending EXCEPT ![f] = (history'[f] # history[f])]
    /\ UNCHANGED <<storage, crashed>>
WriteValue(f, v) ==
    /\ value' = [value EXCEPT ![f] = v]
    /\ valuePending' = [valuePending EXCEPT ![f] = (v # value[f])]
    /\ UNCHANGED <<history, storage, historyPending, crashed>>

\* line 213: onChange={(e) => setValue(e.target.value)}
SetValue(f, v) ==
    /\ FieldsSettled
    /\ TextareaEnabled
    /\ WriteValue(f, v)
    /\ UNCHANGED showHistory
    /\ UNCHANGED viewVars
    /\ UNCHANGED runVars
    /\ UNCHANGED hoverVars

\* a character typed at the end of the text
TypeChar(f, c) ==
    /\ Len(value[f]) < MaxTyped
    /\ SetValue(f, Append(value[f], c))

\* lines 149-152 and 171: the history button, and the backdrop that closes the
\* list; lines 178-181 render the list: history.length and history.map
ListThrows(h) == h.t # "array" /\ h # JScalar(JStr(<<>>))

ToggleHistory(f) ==
    /\ FieldsSettled
    /\ showHistory' = [showHistory EXCEPT ![f] = ~@]
    /\ crashed' = (showHistory'[f] /\ ListThrows(history[f]))
    /\ UNCHANGED <<value, history, storage, valuePending, historyPending>>
    /\ UNCHANGED viewVars
    /\ UNCHANGED runVars
    /\ UNCHANGED hoverVars

\* lines 184-187: a version of the open list is clicked
Restore(f, i) ==
    /\ FieldsSettled
    /\ showHistory[f]
    /\ history[f].t = "array"
    /\ i \in 1 .. Len(history[f].items)
    /\ history[f].items[i].t = "string"
    /\ WriteValue(f, history[f].items[i].s)
    /\ showHistory' = [showHistory EXCEPT ![f] = FALSE]
    /\ UNCHANGED viewVars
    /\ UNCHANGED runVars
    /\ UNCHANGED hoverVars

\* lines 92-100: commit
Commit(f) ==
    /\ FieldsSettled
    /\ IF trim(value[f]) = <<>>
       THEN UNCHANGED <<history, historyPending, crashed>>
       ELSE IF UpdaterThrows(history[f])
       THEN /\ crashed' = TRUE
            /\ UNCHANGED <<history, historyPending>>
       ELSE /\ history' = [history EXCEPT ![f] = CommitUpdate(@, value[f])]
            /\ historyPending' = [historyPending EXCEPT ![f] = (history'[f] # history[f])]
            /\ UNCHANGED crashed
    /\ UNCHANGED <<value, storage, valuePending, showHistory>>
    /\ UNCHANGED viewVars
    /\ UNCHANGED runVars
    /\ UNCHANGED hoverVars

\* lines 60-66: localStorage.setItem(key, value)
SaveValueEffect(f) ==
    /\ ~crashed
    /\ valuePending[f]
    /\ storage' = [storage EXCEPT ![f].value = Stored(value[f])]
    /\ valuePending' = [valuePending EXCEPT ![f] = FALSE]
    /\ UNCHANGED <<value, history, historyPending, showHistory, crashed>>
    /\ UNCHANGED viewVars
    /\ UNCHANGED runVars
    /\ UNCHANGED hoverVars

\* lines 83-89: localStorage.setItem(`${key}_history`, JSON.stringify(history))
SaveHistoryEffect(f) ==
    /\ ~crashed
    /\ historyPending[f]
    /\ storage' = [storage EXCEPT ![f].history = Stored(JSONstringify(history[f]))]
    /\ historyPending' = [historyPending EXCEPT ![f] = FALSE]
    /\ UNCHANGED <<value, history, valuePending, showHistory, crashed>>
    /\ UNCHANGED viewVars
    /\ UNCHANGED runVars
    /\ UNCHANGED hoverVars

\* the effects of lines 60-66 and 83-89 of all four fields, as React runs
\* them: every effect that the last render scheduled, in one pass
FlushEffects ==
    /\ ~crashed
    /\ \E f \in Fields : valuePending[f] \/ historyPending[f]
    /\ storage' = [f \in Fields |->
                       [value |-> IF valuePending[f] THEN Stored(value[f])
                                  ELSE storage[f].value,
                        history |-> IF historyPending[f]
                                    THEN Stored(JSONstringify(history[f]))
                                    ELSE storage[f].history]]
    /\ valuePending' = [f \in Fields |-> FALSE]
    /\ historyPending' = [f \in Fields |-> FALSE]
    /\ UNCHANGED <<value, history, showHistory, crashed>>
    /\ UNCHANGED viewVars
    /\ UNCHANGED runVars
    /\ UNCHANGED hoverVars

----------------------------------------------------------------------------
(* Specifications of one prompt field: the hooks of lines 228 and 234 *)

HookField == "role"

\* DetectionResult is not on screen
ViewIdle ==
    /\ images = <<>>
    /\ detections = <<>>
    /\ selectedIndex = 0
    /\ selEffectPending = FALSE
    /\ view = NotRendered
    /\ NoHover

\* the state after the first render of App over the given localStorage
\* entries of the field: both effects are scheduled
Mounted(entries) ==
    /\ storage = [f \in Fields |->
                     IF f = HookField THEN entries
                     ELSE [value |-> Absent, history |-> Absent]]
    /\ value = [f \in Fields |->
                   IF f = HookField THEN LoadValue(entries.value, f) ELSE <<>>]
    /\ history = [f \in Fields |->
                     IF f = HookField THEN LoadHistory(entries.history)
                     ELSE JArray(<<>>)]
    /\ valuePending = [f \in Fields |-> f = HookField]
    /\ historyPending = [f \in Fields |-> f = HookField]
    /\ showHistory = [f \in Fields |-> FALSE]
    /\ crashed = FALSE
    /\ RunIdle
    /\ ViewIdle

Texts == {<<>>, <<" ">>, <<"d">>, <<"d", " ">>, <<"b">>}

Alternating(n) == [i \in 1 .. n |-> IF i % 2 = 1 THEN JStr(<<"d">>) ELSE JStr(<<"b">>)]

\* what localStorage may hold under <key>_history when App starts
StoredHistories ==
    {Absent,
     Stored(<<>>),
     Stored(<<"[", Quote, "d">>),
     Stored(<<"5">>),
     Stored(<<"n", "u", "l", "l">>),
     Stored(<<"{", "}">>),
     Stored(<<Quote, "d", "b", Quote>>),
     Stored(JSONstringify(JArray(<<>>))),
     Stored(JSONstringify(JArray(<<JStr(<<"d">>), JStr(<<"d">>)>>))),
     Stored(JSONstringify(JArray(Alternating(MAX_HISTORY)))),
     Stored(JSONstringify(JArray(Alternating(MAX_HISTORY + 1))))}

StoredValues == {Absent, Stored(<<>>), Stored(<<"b">>)}

InitHist ==
    \E v \in StoredValues, h \in StoredHistories :
        Mounted([value |-> v, history |-> h])

NextHist ==
    \/ \E v \in Texts : SetValue(HookField, v)
    \/ ToggleHistory(HookField)
    \/ \E i \in 1 .. MAX_HISTORY + 1 : Restore(HookField, i)
    \/ Commit(HookField)
    \/ SaveValueEffect(HookField)
    \/ SaveHistoryEffect(HookField)

SpecHist == InitHist /\ [][NextHist]_vars

\* a browser that holds nothing under the keys of the field
InitHistEmpty == Mounted([value |-> Absent, history |-> Absent])

SpecHistEmpty == InitHistEmpty /\ [][NextHist]_vars

\* the operator only ever adds to the text, so every text is new
NextTyped ==
    \/ TypeChar(HookField, "x")
    \/ Commit(HookField)
    \/ SaveValueEffect(HookField)
    \/ SaveHistoryEffect(HookField)

SpecHistTyped == InitHistEmpty /\ [][NextTyped]_vars

----------------------------------------------------------------------------
(* The prompt fields at rest, for the specifications of DetectionResult *)

FieldsIdle ==
    /\ value = [f \in Fields |-> <<>>]
    /\ history = [f \in Fields |-> JArray(<<>>)]
    /\ storage = [f \in Fields |-> [value |-> Absent, history |-> Absent]]
    /\ valuePending = [f \in Fields |-> FALSE]
    /\ historyPending = [f \in Fields |-> FALSE]
    /\ showHistory = [f \in Fields |-> FALSE]
    /\ crashed = FALSE
    /\ RunIdle

----------------------------------------------------------------------------
(* DetectionResult: mount, thumbnail click, selection-reset effect *)

\* the component is on screen and React has no effect left to flush
Interactive == view.status \in {"ok", "null"} /\ ~selEffectPending

\* lines 9-11 and the first render; the effect of lines 14-18 runs after it
Mount ==
    /\ view.status = "none"
    /\ view' = Render(images, detections, selectedIndex)
    /\ selEffectPending' = (view'.status # "threw")
    /\ UNCHANGED <<images, detections, selectedIndex>>
    /\ UNCHANGED fieldVars
    /\ UNCHANGED runVars
    /\ UNCHANGED hoverVars

\* line 123: onClick={() => setSelectedIndex(idx)} of a rendered thumbnail
ClickThumbnail(idx) ==
    /\ Interactive
    /\ view.status = "ok"
    /\ idx \in 0 .. Len(images) - 1
    /\ selectedIndex' = idx
    /\ view' = Render(images, detections, idx)
    /\ selEffectPending' = (idx # selectedIndex /\ view'.status # "threw")
    /\ UNCHANGED <<images, detections>>
    /\ UNCHANGED fieldVars
    /\ UNCHANGED runVars
    /\ UNCHANGED hoverVars

\* lines 15-17
ResetTargetStrict(sel, n) == IF sel > n THEN 0 ELSE sel
ResetTarget(sel, n) == IF sel >= n THEN 0 ELSE sel

\* lines 14-18: useEffect(..., [images.length, selectedIndex])
SelectionEffect ==
    /\ selEffectPending
    /\ selectedIndex' = ResetTarget(selectedIndex, Len(images))
    /\ view' = Render(images, detections, selectedIndex')
    /\ selEffectPending' = (selectedIndex' # selectedIndex /\ view'.status # "threw")
    /\ UNCHANGED <<images, detections>>
    /\ UNCHANGED fieldVars
    /\ UNCHANGED runVars
    /\ UNCHANGED hoverVars

----------------------------------------------------------------------------
(* DetectionResult: the hovered detection *)

\* lines 191 and 230: `${safeIndex}-${dIdx}`
UniqueIdByPosition(si, dIdx) == JStr(Numeral(dIdx))
UniqueId(si, dIdx) == JStr(Numeral(si) \o <<"-">> \o Numeral(dIdx))

\* lines 192 and 231: the box and the card of position dIdx are drawn hovered
isHovered(dIdx) == view.status = "ok" /\ hoveredId = UniqueId(view.safeIndex, dIdx)

\* lines 206 and 237: the pointer enters the box or the card of a drawn
\* detection; the state update renders the component again
MouseEnter(dIdx) ==
    /\ Interactive
    /\ view.status = "ok"
    /\ dIdx \in 0 .. Len(view.styles) - 1
    /\ hoveredId' = UniqueId(view.safeIndex, dIdx)
    /\ hoveredAt' = view.safeIndex
    /\ view' = Render(images, detections, selectedIndex)
    /\ UNCHANGED <<images, detections, selectedIndex, selEffectPending>>
    /\ UNCHANGED fieldVars
    /\ UNCHANGED runVars

\* lines 207 and 238: the pointer leaves a box or a card
MouseLeave ==
    /\ Interactive
    /\ view.status = "ok"
    /\ Len(view.styles) > 0
    /\ hoveredId' = JNull
    /\ UNCHANGED hoveredAt
    /\ view' = Render(images, detections, selectedIndex)
    /\ UNCHANGED <<images, detections, selectedIndex, selEffectPending>>
    /\ UNCHANGED fieldVars
    /\ UNCHANGED runVars

----------------------------------------------------------------------------
(* App: the image list under a mounted DetectionResult *)

ImageIds == {1, 2}

\* what a change of the images prop does to DetectionResult: a new render,
\* and the effect when images.length changed
Rerender(imgs, sel) ==
    /\ view' = Render(imgs, detections, sel)
    /\ selEffectPending' = (Len(imgs) # Len(images) /\ view'.status # "threw")

\* App.tsx lines 263-276: the chosen files are decoded, then
\* setImages(prev => [...prev, ...processedImages])
AddImages(ids) ==
    /\ Interactive
    /\ ids # <<>>
    /\ Len(images) + Len(ids) <= MaxImages
    /\ images' = images \o ids
    /\ Rerender(images', selectedIndex)
    /\ UNCHANGED <<detections, selectedIndex>>
    /\ UNCHANGED fieldVars
    /\ UNCHANGED runVars
    /\ UNCHANGED hoverVars

\* App.tsx lines 278-280: prev.filter((_, i) => i !== index)
RemoveAt(imgs, index) ==
    [j \in 1 .. Len(imgs) - 1 |-> IF j <= index THEN imgs[j] ELSE imgs[j + 1]]

RemoveImage(index) ==
    /\ Interactive
    /\ index \in 0 .. Len(images) - 1
    /\ images' = RemoveAt(images, index)
    /\ Rerender(images', selectedIndex)
    /\ UNCHANGED <<detections, selectedIndex>>
    /\ UNCHANGED fieldVars
    /\ UNCHANGED runVars
    /\ UNCHANGED hoverVars

\* App.tsx lines 282-285, behind the Clear button of line 436
ClearAllImages ==
    /\ Interactive
    /\ Len(images) > 0
    /\ images' = <<>>
    /\ Rerender(images', selectedIndex)
    /\ UNCHANGED <<detections, selectedIndex>>
    /\ UNCHANGED fieldVars
    /\ UNCHANGED runVars
    /\ UNCHANGED hoverVars

----------------------------------------------------------------------------
(* Specification of detectionsByImage and the render over chosen batches *)

Box10 == BoxArray(<<JInt(10), JInt(10), JInt(50), JInt(50)>>)

IndexValues ==
    {JInt(-1), JInt(0), JNum(Unit \div 2), JInt(1), JInt(7),
     JStr(<<"1">>), JStr(<<" ", "2">>), JStr(<<"-", "1">>), JStr(<<"x">>),
     JStr(<<"1", "x">>), JNull, JUndefined}

Confidences == {Unit \div 2, (9 * Unit) \div 10}

Entries ==
    {Detection(ix, c, Box10) : ix \in IndexValues, c \in Confidences}
    \cup {Detection(JInt(0), Unit \div 2, BoxMissing),
          Detection(JInt(0), Unit \div 2, BoxNotArray),
          NullEntry}

Batches == UNION {[1 .. m -> Entries] : m \in 0 .. MaxBatch}

InitIndex ==
    /\ detections \in Batches
    /\ images \in {[j \in 1 .. n |-> 1] : n \in 0 .. MaxImages}
    /\ selectedIndex = 0
    /\ selEffectPending = FALSE
    /\ view = NotRendered
    /\ NoHover
    /\ FieldsIdle

NextIndex ==
    \/ Mount
    \/ \E idx \in 0 .. MaxImages - 1 : ClickThumbnail(idx)
    \/ SelectionEffect

SpecIndex == InitIndex /\ [][NextIndex]_vars

----------------------------------------------------------------------------
(* Specification of the drawn detections: one box drawn twice on the first *)
(* image, first with its coordinates as fractions, then with each          *)
(* coordinate multiplied by 1000, and other batches on that image          *)

\* confidences at and around the two thresholds, in thousandths
TierConfidences == {0, 599, 600, 601, 849, 850, 851, Unit}

\* the fractions of a coordinate, in thousandths
Fractions == {0, 1, 100, 200, 300, 400, 550, 1500, 1600}

ScaledBox(c, scale) == BoxArray([i \in 1 .. 4 |-> JNum(c[i] * scale)])

BoxPairs ==
    {<<Detection(JInt(0), Unit \div 2, ScaledBox(c, 1)),
       Detection(JInt(0), Unit \div 2, ScaledBox(c, Unit))>> :
        c \in [1 .. 4 -> Fractions]}

\* other batches on the first image: boxes whose far corner comes before the
\* near one, a box beyond the image, a negative coordinate, a coordinate that
\* is no number, a box of two coordinates
BoxCases ==
    {<<Detection(JInt(0), Unit \div 2, BoxArray(<<JInt(5), JInt(5), JInt(2), JInt(2)>>))>>,
     <<Detection(JInt(0), Unit \div 2, BoxArray(<<JNum(500), JNum(500), JNum(200), JNum(200)>>))>>,
     <<Detection(JInt(0), Unit \div 2, BoxArray(<<JInt(900), JInt(900), JInt(1200), JInt(1200)>>)),
       Detection(JInt(0), Unit \div 2, BoxArray(<<JInt(-10), JInt(0), JInt(10), JInt(10)>>))>>,
     <<Detection(JInt(0), Unit \div 2, BoxArray(<<JStr(<<"x">>), JInt(10), JInt(50), JInt(50)>>)),
       Detection(JInt(0), Unit \div 2, Box10)>>,
     <<Detection(JInt(0), Unit \div 2, Box10),
       Detection(JInt(0), Unit \div 2, BoxArray(<<JInt(10), JInt(10)>>))>>}
    \cup {<<Detection(JInt(0), c, Box10)>> : c \in TierConfidences}

InitBox ==
    /\ detections \in BoxPairs \cup BoxCases
    /\ images = <<1>>
    /\ selectedIndex = 0
    /\ selEffectPending = FALSE
    /\ view = NotRendered
    /\ NoHover
    /\ FieldsIdle

NextBox ==
    \/ Mount
    \/ SelectionEffect

SpecBox == InitBox /\ [][NextBox]_vars

----------------------------------------------------------------------------
(* Specification of the selection under a changing image list *)

SelBatches ==
    {<<>>,
     <<Detection(JInt(0), Unit \div 2, Box10), Detection(JStr(<<"1">>), Unit \div 2, Box10)>>}

InitSel ==
    /\ detections \in SelBatches
    /\ images \in UNION {[1 .. n -> ImageIds] : n \in 0 .. MaxImages}
    /\ selectedIndex = 0
    /\ selEffectPending = FALSE
    /\ view = NotRendered
    /\ NoHover
    /\ FieldsIdle

NextSel ==
    \/ Mount
    \/ \E idx \in 0 .. MaxImages - 1 : ClickThumbnail(idx)
    \/ SelectionEffect
    \/ \E ids \in UNION {[1 .. n -> ImageIds] : n \in 1 .. 2} : AddImages(ids)
    \/ \E index \in 0 .. MaxImages - 1 : RemoveImage(index)
    \/ ClearAllImages

SpecSel == InitSel /\ [][NextSel]_vars

\* React runs a scheduled effect: it is never postponed for ever
SpecSelFair == SpecSel /\ WF_vars(SelectionEffect)

----------------------------------------------------------------------------
(* Specification of the hovered detection under a changing selection and   *)
(* image list                                                              *)

HoverBatches ==
    SelBatches
    \cup {<<Detection(JInt(0), Unit \div 2, Box10),
            Detection(JInt(0), (9 * Unit) \div 10, Box10),
            Detection(JStr(<<"1">>), Unit \div 2, Box10)>>}

InitHover ==
    /\ detections \in HoverBatches
    /\ images \in UNION {[1 .. n -> ImageIds] : n \in 0 .. MaxImages}
    /\ selectedIndex = 0
    /\ selEffectPending = FALSE
    /\ view = NotRendered
    /\ NoHover
    /\ FieldsIdle

NextHover ==
    \/ NextSel
    \/ \E dIdx \in 0 .. MaxBatch - 1 : MouseEnter(dIdx)
    \/ MouseLeave

SpecHover == InitHover /\ [][NextHover]_vars

----------------------------------------------------------------------------
(* App: handleSubmit and the answer of the model *)

MaxRuns == 2        \* most runs started

\* the element of a parsed batch as DetectionResult reads it: null, or a
\* value without the properties imageIndex and box_2d
EntryOf(v) ==
    IF v.t = "null" THEN NullEntry
    ELSE IF v.t = "detection" THEN Detection(JInt(v.n), Unit \div 2, Box10)
    ELSE Detection(JUndefined, 0, BoxMissing)

EntriesOf(items) == [i \in 1 .. Len(items) |-> EntryOf(items[i])]

\* lines 358-377: what the answer text makes of parsedDetections and
\* viewMode; set is FALSE where setParsedDetections is not called
ItemsKey == <<"i", "t", "e", "m", "s">>

ParseAnswerLoose(text) ==
    LET r == JSONparse(text)
        raw == [set |-> FALSE, batch |-> NoBatch, mode |-> "raw"]
    IN IF ~r.ok THEN raw
       ELSE IF r.v.t \in {"array", "object"}
       THEN [set |-> TRUE, batch |-> BatchOf(r.v.items), mode |-> "visual"]
       ELSE raw
ParseAnswer(text) ==
    LET r == JSONparse(text)
        raw == [set |-> FALSE, batch |-> NoBatch, mode |-> "raw"]
    IN IF ~r.ok THEN raw
       ELSE IF r.v.t = "array"
       THEN [set |-> TRUE, batch |-> BatchOf(r.v.items), mode |-> "visual"]
       ELSE IF r.v.t = "object" /\ r.v.s = ItemsKey
       THEN [set |-> TRUE, batch |-> BatchOf(r.v.items), mode |-> "visual"]
       ELSE raw

\* lines 622 and 675-676: DetectionResult is on screen
ShowsDetections(text, mode, parsed) ==
    text # <<>> /\ mode = "visual" /\ parsed.t = "array"

\* the render of App with DetectionResult under it: a first render of
\* DetectionResult starts from selectedIndex 0 and schedules its effect, a
\* further one keeps the state, and an exception of the render leaves no App
AppRendersWith(imgs, text, mode, parsed) ==
    IF ShowsDetections(text, mode, parsed)
    THEN LET sel == IF view.status = "none" THEN 0 ELSE selectedIndex
         IN /\ detections' = EntriesOf(parsed.items)
            /\ selectedIndex' = sel
            /\ view' = Render(imgs, detections', sel)
            /\ selEffectPending' = (view'.status # "threw"
                                      /\ (\/ view.status = "none"
                                          \/ selEffectPending
                                          \/ Len(imgs) # Len(images)))
            /\ crashed' = (view'.status = "threw")
            /\ hoveredId' = (IF view.status = "none" THEN JNull ELSE hoveredId)
            /\ hoveredAt' = (IF view.status = "none" THEN -1 ELSE hoveredAt)
    ELSE /\ detections' = <<>>
         /\ selectedIndex' = 0
         /\ view' = NotRendered
         /\ selEffectPending' = FALSE
         /\ crashed' = FALSE
         /\ hoveredId' = JNull
         /\ hoveredAt' = -1

\* the render of App when the image list stays as it is
AppRenders(text, mode, parsed) == AppRendersWith(images, text, mode, parsed)

\* React has flushed every effect and App is on screen
AppSettled == FieldsSettled /\ ~selEffectPending

\* lines 339-342: what commit makes of the history of a field
Committed(f) ==
    IF trim(value[f]) = <<>> THEN history[f]
    ELSE CommitUpdate(history[f], value[f])

CommitThrows(f) == trim(value[f]) # <<>> /\ UpdaterThrows(history[f])

\* lines 331-355, up to the await: the four commits, the state of a run that
\* loads, and the call of generateContentWithGemini.  The prompt of line 332
\* holds its four headings, so the return of line 335 is never taken.  An
\* updater that throws does so in the render that follows the handler: the
\* call has been made and App is gone.
handleSubmit ==
    /\ AppSettled
    /\ runs < MaxRuns
    /\ runs' = runs + 1
    /\ pending' = pending \cup {runs'}
    /\ sentImages' = images
    /\ UNCHANGED <<images, value, storage, valuePending, showHistory, lastGood,
                   decoding>>
    /\ IF \E f \in Fields : CommitThrows(f)
       THEN /\ crashed' = TRUE
            /\ UNCHANGED <<history, historyPending, status, responseText,
                           parsedDetections, errorMsg, viewMode,
                           detections, selectedIndex, selEffectPending, view,
                           hoveredId, hoveredAt>>
       ELSE /\ history' = [f \in Fields |-> Committed(f)]
            /\ historyPending' = [f \in Fields |-> history'[f] # history[f]]
            /\ status' = "LOADING"
            /\ responseText' = <<>>
            /\ parsedDetections' = NoBatch
            /\ errorMsg' = NoError
            /\ viewMode' = "visual"
            /\ AppRenders(responseText', viewMode', parsedDetections')

\* lines 553-556: the Run Inspection button
RunButtonAlwaysEnabled == Len(images) > 0
RunButtonEnabled == status # "LOADING" /\ Len(images) > 0

RunButton == RunButtonEnabled /\ handleSubmit

\* lines 386-391 on the textarea of a field (line 214)
CtrlEnter == TextareaEnabled /\ handleSubmit

\* geminiService.ts line 80: the rejection carries a message that is not empty
Failures == {"Failed to generate content"}

\* lines 356-379: the call of run id returned text
AnswerArrives(id, text) ==
    LET a == ParseAnswer(text)
    IN /\ FieldsSettled
       /\ id \in pending
       /\ pending' = pending \ {id}
       /\ responseText' = text
       /\ parsedDetections' = (IF a.set THEN a.batch ELSE parsedDetections)
       /\ viewMode' = a.mode
       /\ status' = "SUCCESS"
       /\ lastGood' = [some |-> TRUE, text |-> text, parsed |-> parsedDetections']
       /\ AppRenders(responseText', viewMode', parsedDetections')
       /\ UNCHANGED <<images, value, history, storage, valuePending,
                      historyPending, showHistory, errorMsg, runs,
                      decoding, sentImages>>

\* a catch that shows the message and leaves the status alone
CallFailsQuietly(id, message) ==
    /\ FieldsSettled
    /\ id \in pending
    /\ pending' = pending \ {id}
    /\ errorMsg' = message
    /\ AppRenders(responseText, viewMode, parsedDetections)
    /\ UNCHANGED <<images, value, history, storage, valuePending,
                   historyPending, showHistory, status, responseText,
                   parsedDetections, viewMode, runs, lastGood,
                   decoding, sentImages>>

\* lines 380-383: the call of run id was rejected
CallFails(id, message) ==
    /\ FieldsSettled
    /\ id \in pending
    /\ pending' = pending \ {id}
    /\ errorMsg' = message
    /\ status' = "ERROR"
    /\ AppRenders(responseText, viewMode, parsedDetections)
    /\ UNCHANGED <<images, value, history, storage, valuePending,
                   historyPending, showHistory, responseText,
                   parsedDetections, viewMode, runs, lastGood,
                   decoding, sentImages>>

\* the call of a run whose App is gone returns: there is no state to set
AnswerIsLost(id) ==
    /\ crashed
    /\ id \in pending
    /\ pending' = pending \ {id}
    /\ UNCHANGED <<status, responseText, parsedDetections, errorMsg, viewMode,
                   runs, lastGood, decoding, sentImages>>
    /\ UNCHANGED viewVars
    /\ UNCHANGED fieldVars
    /\ UNCHANGED hoverVars

\* lines 631-661: the Visual, Raw and Debug buttons, shown with a response;
\* Visual is disabled without a parsed batch
SetViewMode(mode) ==
    /\ AppSettled
    /\ responseText # <<>>
    /\ mode = "visual" => parsedDetections.t = "array"
    /\ viewMode' = mode
    /\ AppRenders(responseText, mode, parsedDetections)
    /\ UNCHANGED <<images, value, history, storage, valuePending,
                   historyPending, showHistory, status, responseText,
                   parsedDetections, errorMsg, pending, runs, lastGood,
                   decoding, sentImages>>

----------------------------------------------------------------------------
(* App: the image list (lines 263-285 and 436-443) *)

MaxSelections == 1  \* most file selections being decoded at a time

\* the controls of lines 436-443 and of ImagePreviewGrid take input
ImageControlsEnabled == status # "LOADING"

RECURSIVE Lengths(_)
Lengths(batches) ==
    IF batches = {} THEN 0
    ELSE LET b == CHOOSE x \in batches : TRUE
         IN Len(b) + Lengths(batches \ {b})

\* lines 263-267: files are chosen in the file input and processFile starts
\* to read each of them; the handler waits at line 268
handleFileChange(ids) ==
    /\ AppSettled
    /\ ImageControlsEnabled
    /\ ids # <<>>
    /\ ids \notin decoding
    /\ Cardinality(decoding) < MaxSelections
    /\ Len(images) + Lengths(decoding) + Len(ids) <= MaxImages
    /\ decoding' = decoding \cup {ids}
    /\ UNCHANGED <<status, responseText, parsedDetections, errorMsg, viewMode,
                   pending, runs, lastGood, sentImages>>
    /\ UNCHANGED viewVars
    /\ UNCHANGED fieldVars
    /\ UNCHANGED hoverVars

\* lines 268-270: every file of a selection was read, and
\* setImages(prev => [...prev, ...processedImages]) renders App again
FilesDecoded(ids) ==
    /\ AppSettled
    /\ ids \in decoding
    /\ decoding' = decoding \ {ids}
    /\ images' = images \o ids
    /\ AppRendersWith(images', responseText, viewMode, parsedDetections)
    /\ UNCHANGED <<value, history, storage, valuePending, historyPending,
                   showHistory, status, responseText, parsedDetections,
                   errorMsg, viewMode, pending, runs, lastGood, sentImages>>

\* lines 271-274: a file of a selection could not be read
DecodingFails(ids) ==
    /\ AppSettled
    /\ ids \in decoding
    /\ decoding' = decoding \ {ids}
    /\ errorMsg' = "Failed to process some images."
    /\ AppRenders(responseText, viewMode, parsedDetections)
    /\ UNCHANGED <<images, value, history, storage, valuePending,
                   historyPending, showHistory, status, responseText,
                   parsedDetections, viewMode, pending, runs, lastGood,
                   sentImages>>

\* lines 278-280, behind the button that ImagePreviewGrid shows on an image
\* unless disabled
handleRemoveImage(index) ==
    /\ AppSettled
    /\ ImageControlsEnabled
    /\ index \in 0 .. Len(images) - 1
    /\ images' = RemoveAt(images, index)
    /\ AppRendersWith(images', responseText, viewMode, parsedDetections)
    /\ UNCHANGED <<value, history, storage, valuePending, historyPending,
                   showHistory>>
    /\ UNCHANGED runVars

\* lines 282-285, behind the Clear button of lines 436-438
handleClearAllImages ==
    /\ AppSettled
    /\ ImageControlsEnabled
    /\ Len(images) > 0
    /\ images' = <<>>
    /\ AppRendersWith(images', responseText, viewMode, parsedDetections)
    /\ UNCHANGED <<value, history, storage, valuePending, historyPending,
                   showHistory>>
    /\ UNCHANGED runVars

----------------------------------------------------------------------------
(* Specification of App: the four prompt fields, the runs and their answers *)

\* the state after the first render of App over the given localStorage: every
\* field is loaded and both effects of every field are scheduled
MountedApp(store, imgs) ==
    /\ storage = store
    /\ value = [f \in Fields |-> LoadValue(store[f].value, f)]
    /\ history = [f \in Fields |-> LoadHistory(store[f].history)]
    /\ valuePending = [f \in Fields |-> TRUE]
    /\ historyPending = [f \in Fields |-> TRUE]
    /\ showHistory = [f \in Fields |-> FALSE]
    /\ crashed = FALSE
    /\ RunIdle
    /\ images = imgs
    /\ detections = <<>>
    /\ selectedIndex = 0
    /\ selEffectPending = FALSE
    /\ view = NotRendered
    /\ NoHover

\* what localStorage may hold when App starts: nothing, or a history of the
\* first field that is a list, or that is not one
RunStores ==
    {[f \in Fields |->
         [value |-> Absent,
          history |-> IF f = HookField THEN h ELSE Absent]] :
     h \in {Absent, Stored(<<"5">>), Stored(JSONstringify(JArray(<<JStr(<<"b">>)>>)))}}

RunImages == {<<>>, <<1, 2>>}

InitRun == \E store \in RunStores, imgs \in RunImages : MountedApp(store, imgs)

\* what the operator types into the first field
RunTexts == {<<>>, <<"d">>, <<"b">>}

\* what the model may answer
Answers ==
    {<<"[", "]">>,
     <<"[", "1", "]">>,
     <<"[", "n", "u", "l", "l", "]">>,
     JSONstringify(JObjectWith(ItemsKey, <<JInt(1)>>)),
     <<"{", "}">>,
     <<"n", "u", "l", "l">>,
     <<"[">>}

NextRun ==
    \/ \E v \in RunTexts : SetValue(HookField, v)
    \/ ToggleHistory(HookField)
    \/ \E i \in 1 .. MaxRuns + 1 : Restore(HookField, i)
    \/ FlushEffects
    \/ RunButton
    \/ CtrlEnter
    \/ \E id \in 1 .. MaxRuns, text \in Answers : AnswerArrives(id, text)
    \/ \E id \in 1 .. MaxRuns, message \in Failures : CallFails(id, message)
    \/ \E id \in 1 .. MaxRuns : AnswerIsLost(id)
    \/ \E mode \in {"visual", "raw", "debug"} : SetViewMode(mode)
    \/ \E idx \in 0 .. 1 : ClickThumbnail(idx)
    \/ SelectionEffect

SpecRun == InitRun /\ [][NextRun]_vars

----------------------------------------------------------------------------
(* Specification of App: the runs and the image list *)

NoStore == [f \in Fields |-> [value |-> Absent, history |-> Absent]]

InitImages == \E imgs \in RunImages : MountedApp(NoStore, imgs)

\* the files that the operator chooses at a time
FileSelections == {<<3>>}

\* what the model may answer: no detection, or one for each of two images
ImageAnswers ==
    {<<"[", "]">>,
     <<"[", DetectionSymbol(0), ",", DetectionSymbol(1), "]">>}

NextImages ==
    \/ FlushEffects
    \/ RunButton
    \/ CtrlEnter
    \/ \E id \in 1 .. MaxRuns, text \in ImageAnswers : AnswerArrives(id, text)
    \/ \E id \in 1 .. MaxRuns, message \in Failures : CallFails(id, message)
    \/ \E idx \in 0 .. MaxImages - 1 : ClickThumbnail(idx)
    \/ SelectionEffect
    \/ \E ids \in FileSelections : handleFileChange(ids)
    \/ \E ids \in FileSelections : FilesDecoded(ids)
    \/ \E ids \in FileSelections : DecodingFails(ids)
    \/ \E index \in 0 .. MaxImages - 1 : handleRemoveImage(index)
    \/ handleClearAllImages

SpecImages == InitImages /\ [][NextImages]_vars

----------------------------------------------------------------------------
(* Claims on detectionsByImage (SpecIndex) *)

Built == view.status \in {"ok", "null"}
ImageCount == Len(images)
Positions == 0 .. ImageCount - 1

\* the entries of a group, as a set
Members(group) == {group[i] : i \in 1 .. Len(group)}

\* the value an imageIndex stands for lies in the interval [0, imageCount)
InsideInterval(ix, n) ==
    LET v == IF ix.t = "string" THEN parseInt(ix.s) ELSE ix
    IN v.t = "number" /\ 0 <= v.n /\ v.n < n * Unit

\* C1: the grouping has exactly the keys 0 .. imageCount-1, whatever
\* imageIndex values the batch carries.
C1_KeysAreImagePositions ==
    Built => DOMAIN view.groups = {JInt(k) : k \in Positions}

\* C2: a detection whose imageIndex is outside [0, imageCount) (negative,
\* not a number, or imageCount or more) appears in no group.
C2_OutsideInNoGroup ==
    Built =>
        \A i \in 1 .. Len(detections) :
            ~InsideInterval(detections[i].imageIndex, ImageCount)
                => \A key \in DOMAIN view.groups :
                       detections[i] \notin Members(view.groups[key])

\* C3: a detection whose imageIndex is the integer k, or the numeral of k,
\* with 0 <= k < imageCount, is in group k and in no other group.
C3_PlacedInItsGroup ==
    Built =>
        \A i \in 1 .. Len(detections) : \A k \in Positions :
            detections[i].imageIndex \in {JInt(k), JStr(Numeral(k))}
                => /\ detections[i] \in Members(view.groups[JInt(k)])
                   /\ \A key \in DOMAIN view.groups \ {JInt(k)} :
                          detections[i] \notin Members(view.groups[key])

\* the batch of the example: imageIndex "1" and imageIndex 7 over three images
C3_Witness ==
    /\ Built
    /\ ImageCount = 3
    /\ detections = <<Detection(JStr(<<"1">>), (9 * Unit) \div 10, Box10),
                      Detection(JInt(7), (9 * Unit) \div 10, Box10)>>
    /\ view.groups[JInt(1)] = <<detections[1]>>
    /\ \A key \in DOMAIN view.groups \ {JInt(1)} : view.groups[key] = <<>>

IndexIs(k, d) == ResolveIndex(d) = JInt(k)
ThoseAt(dets, k) ==
    LET keep == {i \in 1 .. Len(dets) : IndexIs(k, dets[i])}
        Nth[j \in 0 .. Cardinality(keep)] ==
            IF j = 0 THEN 0
            ELSE CHOOSE i \in keep : /\ i > Nth[j - 1]
                                     /\ \A h \in keep : h > Nth[j - 1] => i <= h
    IN [j \in 1 .. Cardinality(keep) |-> dets[Nth[j]]]

\* C4: group k is the subsequence of the batch whose resolved imageIndex is
\* k, in arrival order.
C4_GroupIsSubsequence ==
    Built => \A k \in Positions : view.groups[JInt(k)] = ThoseAt(detections, k)

\* two detections of one image, the less confident one first
C4_Witness ==
    /\ Built
    /\ Len(detections) = 2
    /\ \E k \in Positions :
          /\ view.groups[JInt(k)] = detections
          /\ detections[1].confidence < detections[2].confidence
          /\ detections[1].imageIndex # detections[2].imageIndex

\* a well-formed record: an object with an integer position and an array box
WellFormed(d, n) ==
    /\ d.e = "object"
    /\ \E k \in 0 .. n - 1 : d.imageIndex = JInt(k)
    /\ d.box_2d.t = "array"

\* C5: no error escapes the build or the box computation; a malformed record
\* is skipped and every well-formed record of the batch is still grouped.
C5_NoErrorEscapes ==
    view.status # "none" =>
        /\ view.status # "threw"
        /\ \A i \in 1 .. Len(detections) :
               WellFormed(detections[i], ImageCount)
                   => \E key \in DOMAIN view.groups :
                          detections[i] \in Members(view.groups[key])

----------------------------------------------------------------------------
(* Claims on the selection (SpecSel, SpecSelFair) *)

\* C6: the resolved index is never imageCount or more when there are images;
\* with no image nothing is selected and nothing is rendered.
C6_SafeIndexInRange ==
    view.status # "none" =>
        /\ ImageCount > 0 => /\ view.status = "ok"
                             /\ view.safeIndex \in Positions
                             /\ view.image = images[view.safeIndex + 1]
        /\ ImageCount = 0 => /\ view.status = "null"
                             /\ view.safeIndex = -1
                             /\ view.styles = <<>>

\* the stored index points past the end and the render shows image 0
C6_Witness ==
    /\ ImageCount > 0
    /\ selectedIndex >= ImageCount
    /\ view.status = "ok"
    /\ view.safeIndex = 0

PastTheEnd == ImageCount > 0 /\ selectedIndex >= ImageCount

\* C7: a render that resolves the index does not write selectedIndex (only a
\* thumbnail click or the effect does), and the effect brings a stored index
\* that points past the end back below imageCount.
C7_StoredIndexReconciled ==
    /\ [][selectedIndex' # selectedIndex =>
             \/ /\ selEffectPending
                /\ selectedIndex >= ImageCount
                /\ selectedIndex' = 0
                /\ images' = images
             \/ /\ ~selEffectPending
                /\ images' = images
                /\ selectedIndex' \in Positions]_vars
    /\ (PastTheEnd ~> selectedIndex < ImageCount)

\* the image list shrank under the stored index and the effect has not run
C7_Witness ==
    /\ PastTheEnd
    /\ selEffectPending
    /\ view.safeIndex = 0

----------------------------------------------------------------------------
(* Claims on the history of a prompt field (SpecHist, SpecHistEmpty,       *)
(* SpecHistTyped)                                                          *)

Versions == history[HookField].items
Current == JStr(value[HookField])

\* C8: in every reachable state, the state right after loading what is
\* persisted included, the history has at most 10 entries.
C8_HistoryBounded ==
    history[HookField].t = "array" => Len(Versions) <= MAX_HISTORY

\* C9: a commit while the head of the history equals the current value
\* changes nothing, and from an empty history the first two entries are never
\* equal (so the same value committed twice in a row is held once).
C9_NoDuplicateHead ==
    /\ [](/\ history[HookField].t = "array"
          /\ Len(Versions) >= 2 => Versions[1] # Versions[2])
    /\ [][(Versions # <<>> /\ Versions[1] = Current)
             => history'[HookField] = history[HookField]]_vars

\* the value that was just committed is still the current one: a further
\* commit meets it at the head
C9_Witness ==
    /\ FieldsSettled
    /\ Len(Versions) = 1
    /\ Versions[1] = Current
    /\ storage[HookField].history = Stored(JSONstringify(history[HookField]))
    /\ ENABLED Commit(HookField)

\* the text of k characters that the operator has reached by typing
TypedText(k) == [i \in 1 .. k |-> IF i = 1 THEN "d" ELSE "x"]

\* C10: a commit that is not suppressed puts the current value first and
\* keeps the 10 most recent entries, newest first; 11 distinct values leave
\* exactly the last 10.
C10_PrependAndTruncate ==
    /\ [][history'[HookField] # history[HookField] =>
             /\ history'[HookField].items[1] = Current
             /\ Len(history'[HookField].items)
                    = (IF Len(Versions) < MAX_HISTORY THEN Len(Versions) + 1
                       ELSE MAX_HISTORY)
             /\ \A i \in 2 .. Len(history'[HookField].items) :
                    history'[HookField].items[i] = Versions[i - 1]]_vars
    /\ [](\A i \in 1 .. Len(Versions) - 1 :
              Len(Versions[i].s) > Len(Versions[i + 1].s))

\* eleven distinct texts were committed: the history holds the last ten
C10_Witness ==
    /\ Len(value[HookField]) = MAX_HISTORY + 1
    /\ Versions = [i \in 1 .. MAX_HISTORY |-> JStr(TypedText(MAX_HISTORY + 2 - i))]

----------------------------------------------------------------------------
(* Claims on commit, restore, persistence and loading (SpecHist) *)

Blank(s) == \A i \in 1 .. Len(s) : IsWhite(s[i])

\* C11: a commit while the current value is empty or only white space
\* changes neither the history nor anything else and raises no error, so no
\* version of the history is ever blank.
C11_EmptyCommitIsNoOp ==
    /\ [][(Commit(HookField) /\ Blank(value[HookField]))
             => (history' = history /\ crashed' = crashed)]_vars
    /\ [](history[HookField].t = "array"
            => \A i \in 1 .. Len(Versions) : ~Blank(Versions[i].s))

\* the value is one blank and the loaded history is not even iterable: the
\* commit returns before it reads the history
C11_Witness ==
    /\ FieldsSettled
    /\ value[HookField] = <<" ">>
    /\ history[HookField].t = "null"
    /\ ENABLED Commit(HookField)

\* C12: a step that changes the current value (setValue, an edit, a restore)
\* leaves the history as it is; the history changes only in a commit, which
\* changes neither the value nor the open list; and the value a restore
\* writes is the clicked version.
C12_HistoryOnlyOnCommit ==
    /\ [][value' # value => history' = history]_vars
    /\ [][history' # history
             => /\ value' = value
                /\ showHistory' = showHistory
                /\ ~Blank(value[HookField])]_vars
    /\ [][(showHistory[HookField] /\ ~showHistory'[HookField] /\ value' # value)
             => \E i \in 1 .. Len(Versions) :
                    Versions[i] = JStr(value'[HookField])]_vars

\* the second version was restored from the list while the first was the
\* saved value: it is the current value, not yet saved, and the history still
\* has it in second place
C12_Witness ==
    /\ Len(Versions) >= 2
    /\ Current = Versions[2]
    /\ Current # Versions[1]
    /\ valuePending[HookField]
    /\ storage[HookField].value = Stored(Versions[1].s)
    /\ ~showHistory[HookField]

\* C13: in no state does the current value differ from the text stored under
\* <key>, nor the history from the text stored under <key>_history.
C13_PersistedImmediately ==
    ~crashed =>
        /\ storage[HookField].value = Stored(value[HookField])
        /\ storage[HookField].history = Stored(JSONstringify(history[HookField]))

\* C14: whatever is persisted, the loaded history is a sequence of strings
\* (empty when the entry is absent, unparseable or of another shape) and no
\* commit and no display of the list raises an error.
C14_LoadNeverFails ==
    /\ ~crashed
    /\ history[HookField].t = "array"
    /\ \A i \in 1 .. Len(Versions) : Versions[i].t = "string"

----------------------------------------------------------------------------
(* Claims on the runs of App (SpecRun) *)

\* C15: at most one call of the model is under way at any time: a call is
\* under way only while status is LOADING, and while status is LOADING no
\* step starts a further run.
C15_OneRunInFlight ==
    /\ [](/\ Cardinality(pending) <= 1
          /\ (~crashed /\ pending # {}) => status = "LOADING")
    /\ [][status = "LOADING" => (runs' = runs /\ pending' \subseteq pending)]_vars

\* a run is loading, the page is settled and has images, a further run is
\* within the bound, and neither trigger takes it
C15_Witness ==
    /\ status = "LOADING"
    /\ pending = {1}
    /\ Len(images) > 0
    /\ ENABLED handleSubmit
    /\ ~ENABLED RunButton
    /\ ~ENABLED CtrlEnter

\* the first entry of a history, or null
HeadOf(h) == IF h.t = "array" /\ h.items # <<>> THEN h.items[1] ELSE JNull

\* C16: in the step that dispatches the call of a run, for every field whose
\* value is not blank, the history stored under <key>_history is the
\* committed one and its first entry is the value the prompt was built from.
C16_CommitsPersistedBeforeDispatch ==
    [][runs' # runs =>
          \A f \in Fields :
              ~Blank(value[f]) =>
                  /\ storage'[f].history = Stored(JSONstringify(history'[f]))
                  /\ LoadHistory(storage'[f].history).t = "array"
                  /\ HeadOf(LoadHistory(storage'[f].history)) = JStr(value[f])]_vars

\* C17: when the call of a run has failed, status is ERROR, a message is on
\* screen, and responseText and parsedDetections are those of the last
\* successful run.
C17_FailureKeepsResults ==
    (status = "ERROR" /\ ~crashed) =>
        /\ errorMsg # NoError
        /\ lastGood.some => /\ responseText = lastGood.text
                            /\ parsedDetections = lastGood.parsed

\* C18: a step in which an answer sets responseText, parsedDetections,
\* status or viewMode is the answer of the run that was started last, never
\* that of an earlier run.
C18_NoStaleOverwrite ==
    [][(/\ runs' = runs
        /\ pending' # pending
        /\ <<responseText, parsedDetections, status, viewMode>>'
               # <<responseText, parsedDetections, status, viewMode>>)
          => pending \ pending' = {runs}]_vars

\* the answer of a second run has been applied after that of the first
C18_Witness ==
    /\ runs = 2
    /\ pending = {}
    /\ status = "SUCCESS"
    /\ responseText = <<"[", "1", "]">>
    /\ parsedDetections = BatchOf(<<JInt(1)>>)

\* valid structured data: text that parses to an array, or to an object whose
\* items property is an array
Structured(text) ==
    /\ JSONparse(text).ok
    /\ \/ JSONparse(text).v.t = "array"
       \/ JSONparse(text).v.t = "object" /\ JSONparse(text).v.s = ItemsKey

\* C19: the step in which App applies an answer that is not valid structured
\* data selects the raw view, and as long as that answer is the response there is
\* no parsed batch and DetectionResult is not rendered.
C19_InvalidAnswerFallsBackToRaw ==
    /\ [][(~crashed /\ runs' = runs /\ pending' # pending
             /\ status' = "SUCCESS" /\ ~Structured(responseText'))
            => viewMode' = "raw"]_vars
    /\ []((status = "SUCCESS" /\ ~Structured(responseText))
            => /\ parsedDetections = NoBatch
               /\ viewMode # "visual"
               /\ view = NotRendered
               /\ detections = <<>>)

\* the second run ended with an empty object for an answer
C19_Witness ==
    /\ runs = 2
    /\ pending = {}
    /\ status = "SUCCESS"
    /\ responseText = <<"{", "}">>
    /\ viewMode = "raw"
    /\ parsedDetections = NoBatch

----------------------------------------------------------------------------
(* C20 *)

\* the box was drawn in both forms
PairDrawn == view.status = "ok" /\ detections \in BoxPairs

Sides == {"top", "left", "width", "height"}

\* the reading of line 76
ReadAsFractions(box) == \A i \in 1 .. 4 : SmallCoord(Coord(box, i))

\* the fractions lie between 0 and 1.5 and the 0-1000 form is read as such
BothReadings ==
    /\ ReadAsFractions(detections[1].box_2d)
    /\ \A i \in 1 .. 4 : ~DLess[Coord(detections[1].box_2d, i), DZero]
    /\ ~ReadAsFractions(detections[2].box_2d)

\* 2^-40 of a percentage point
Rounding == MakeDouble[FALSE, <<1>>, -40, FALSE]

Magnitude(a) == IF IsZero[a] THEN a ELSE [a EXCEPT !.neg = FALSE]

Close(a, b) ==
    /\ ~a.nan
    /\ ~b.nan
    /\ DLess[Magnitude(JsSub(a, b)), Rounding]

TheExample == [i \in 1 .. 4 |-> JNum(i * 100)]

\* C20 as stated: a box given as fractions and the same box with each
\* coordinate multiplied by 1000 get identical top, left, width and height.
C20_BothFormsIdentical ==
    PairDrawn => view.styles[1] = view.styles[2]

\* C20: when the fractions lie between 0 and 1.5 and the multiplied form has
\* a coordinate above 1.5, the two branches give top, left, width and height
\* in the same unit: each differs by less than 2^-40 of a percentage point
\* between the two forms, and [0.1,0.2,0.3,0.4] and [100,200,300,400] get
\* identical values.
C20_BranchesAgreeOnUnits ==
    (PairDrawn /\ BothReadings) =>
        /\ \A s \in Sides : Close(view.styles[1][s], view.styles[2][s])
        /\ detections[1].box_2d.c = TheExample
               => view.styles[1] = view.styles[2]

\* C20 witness: a box read both ways whose two forms differ by rounding
C20_Witness ==
    /\ PairDrawn
    /\ BothReadings
    /\ view.styles[1] # view.styles[2]

----------------------------------------------------------------------------
(* C21 *)

\* the detections whose boxes the render drew, in the order of view.styles
Drawn == GroupAt(view.groups, view.safeIndex)

\* every coordinate of the box is a number
AllNumbers(box) ==
    Len(box.c) = 4 /\ \A j \in 1 .. 4 : box.c[j].t = "number"

\* the decimal numerals of the coordinates are all at most 1.5
AllAtMostOneAndAHalf(box) == \A j \in 1 .. 4 : 2 * box.c[j].n <= 3 * Unit

StyleAsFractions(box) ==
    NormalizedStyle(Coord(box, 1), Coord(box, 2), Coord(box, 3), Coord(box, 4))

StyleAsScale(box) ==
    ScaleStyle(Coord(box, 1), Coord(box, 2), Coord(box, 3), Coord(box, 4))

\* C21: a box of numbers is drawn by the normalized branch exactly when all
\* four coordinates are <= 1.5, and by the 0-1000 branch as soon as one
\* coordinate exceeds 1.5.
C21_BranchByThreshold ==
    view.status = "ok" =>
        \A i \in 1 .. Len(view.styles) :
            AllNumbers(Drawn[i].box_2d) =>
                view.styles[i] =
                    IF AllAtMostOneAndAHalf(Drawn[i].box_2d)
                    THEN StyleAsFractions(Drawn[i].box_2d)
                    ELSE StyleAsScale(Drawn[i].box_2d)

\* C21 witness: [1.5,1.5,1.5,1.5] was drawn at 150%, and its form on the
\* 0-1000 scale at 150% as well
C21_Witness ==
    /\ view.status = "ok"
    /\ Len(view.styles) = 2
    /\ Drawn[1].box_2d = ScaledBox([j \in 1 .. 4 |-> (3 * Unit) \div 2], 1)
    /\ view.styles[1].top = ToDouble[150 * Unit]
    /\ view.styles[2].top = ToDouble[150 * Unit]

----------------------------------------------------------------------------
(* C22, C23, C24 *)

NotNegative(a) == ~a.nan /\ ~DLess[a, DZero]

\* C22: when xmax < xmin the width is 0, when ymax < ymin the height is 0,
\* and neither is ever negative ([5,5,2,2] gets width 0 and height 0).
C22_DegenerateBoxIsEmpty ==
    view.status = "ok" =>
        \A i \in 1 .. Len(view.styles) :
            AllNumbers(Drawn[i].box_2d) =>
                /\ Drawn[i].box_2d.c[4].n < Drawn[i].box_2d.c[2].n
                       => view.styles[i].width = DZero
                /\ Drawn[i].box_2d.c[3].n < Drawn[i].box_2d.c[1].n
                       => view.styles[i].height = DZero
                /\ NotNegative(view.styles[i].width)
                /\ NotNegative(view.styles[i].height)

\* C23: for a box of numbers, top, left, width and height all lie between
\* 0% and 100%.
C23_WithinImageExtent ==
    view.status = "ok" =>
        \A i \in 1 .. Len(view.styles) :
            AllNumbers(Drawn[i].box_2d) =>
                \A s \in Sides :
                    /\ NotNegative(view.styles[i][s])
                    /\ ~DLess[ToDouble[100 * Unit], view.styles[i][s]]

\* the four coordinates that getBoxStyle reads are numbers after Number(...)
NumericBox(box) ==
    box.t = "array" /\ \A j \in 1 .. 4 : ~Coord(box, j).nan

RECURSIVE NumericOnes(_)
NumericOnes(dets) ==
    IF dets = <<>> THEN <<>>
    ELSE IF NumericBox(Head(dets).box_2d)
    THEN <<Head(dets)>> \o NumericOnes(Tail(dets))
    ELSE NumericOnes(Tail(dets))

\* C24: a detection whose box has a coordinate that is no number is not
\* drawn and gets no geometry; the other detections of the batch are drawn
\* as usual.
C24_NonNumericBoxDropped ==
    view.status # "none" =>
        /\ view.status = "ok"
        /\ view.styles =
               [i \in 1 .. Len(NumericOnes(detections)) |->
                   getBoxStyle(NumericOnes(detections)[i].box_2d)]

----------------------------------------------------------------------------
(* C25 *)

NoneShownHovered == \A dIdx \in 0 .. Len(view.styles) - 1 : ~isHovered(dIdx)

\* C25: an id hovered while one image index was displayed marks no detection
\* once another image index is displayed, until a hover event sets the id
\* anew; setting or clearing the hovered id changes neither selectedIndex
\* nor the grouping.
C25_StaleHoverIsInert ==
    /\ []((view.status = "ok" /\ hoveredAt # view.safeIndex) => NoneShownHovered)
    /\ [][hoveredId' # hoveredId
            => /\ selectedIndex' = selectedIndex
               /\ view'.groups = view.groups
               /\ view'.safeIndex = view.safeIndex]_vars

\* C25 witness: the first detection of the first image was hovered, and the
\* second image is displayed with its detection
C25_Witness ==
    /\ view.status = "ok"
    /\ hoveredAt = 0
    /\ hoveredId # JNull
    /\ view.safeIndex = 1
    /\ Len(view.styles) > 0

----------------------------------------------------------------------------
(* C26 *)

\* the tier that the comment of line 36 gives a confidence (thousandths)
TierOfComment(confidence) ==
    IF confidence > HighFrom THEN "High"
    ELSE IF confidence > MediumFrom THEN "Medium"
    ELSE "Low"

ColourOf(tier) ==
    CASE tier = "High" -> "red"
      [] tier = "Medium" -> "orange"
      [] OTHER -> "yellow"

LabelOf(tier) ==
    CASE tier = "High" -> "HIGH CONFIDENCE"
      [] tier = "Medium" -> "MEDIUM CONFIDENCE"
      [] OTHER -> "LOW CONFIDENCE"

ShownAs(t, tier) ==
    /\ t.border = ColourOf(tier)
    /\ t.badge = ColourOf(tier)
    /\ t.card = ColourOf(tier)
    /\ t.pill = ColourOf(tier)
    /\ t.bar = ColourOf(tier)
    /\ t.label = LabelOf(tier)

\* C26: every drawn detection shows, in its border, badge, card, pill, bar
\* and label alike, the tier of the comment: High above 0.85, Medium above
\* 0.6, Low otherwise, also at exactly 0.85 and 0.6.
C26_TiersAsCommented ==
    view.status = "ok" =>
        \A i \in 1 .. Len(view.tiers) :
            ShownAs(view.tiers[i], TierOfComment(Drawn[i].confidence))

\* the helpers agree with each other on every drawn detection
TiersAgree ==
    view.status = "ok" =>
        \A i \in 1 .. Len(view.tiers) :
            \E tier \in {"High", "Medium", "Low"} : ShownAs(view.tiers[i], tier)

----------------------------------------------------------------------------
(* C27 *)

\* C27: a run is dispatched only with at least one image in the list: neither
\* the Run button nor Ctrl/Cmd+Enter in a prompt field starts a run with an
\* empty image list.
C27_NoRunWithoutImages ==
    [][(runs' # runs /\ status' = "LOADING") => Len(images) > 0]_vars

----------------------------------------------------------------------------
(* C28, C29 *)

\* C28: the image list does not change while a run is in flight.
C28_ImagesFixedWhileLoading ==
    [][status = "LOADING" => images' = images]_vars

\* the positions of the image list whose group holds a detection
Occupied == {k \in 0 .. Len(images) - 1 : GroupAt(view.groups, k) # <<>>}

\* C29: after a successful run, an image that carries detections is the image
\* that was at its position in the request.
C29_DetectionsOnTheirImage ==
    (status = "SUCCESS" /\ view.status = "ok") =>
        \A k \in Occupied :
            k + 1 <= Len(sentImages) /\ images[k + 1] = sentImages[k + 1]

----------------------------------------------------------------------------
(* C30 *)

\* C30: in a mounted App, the step in which the call of a loading run settles
\* sets status to SUCCESS or ERROR; status is LOADING only while the call of
\* the run started last is outstanding; and while status is LOADING
\* responseText is empty and parsedDetections is null.
C30_LoadingEndsWhenCallSettles ==
    /\ [][(~crashed /\ status = "LOADING" /\ runs' = runs
             /\ pending' # pending)
            => status' \in {"SUCCESS", "ERROR"}]_vars
    /\ []((status = "LOADING" /\ ~crashed) => pending = {runs})
    /\ [](status = "LOADING"
            => responseText = <<>> /\ parsedDetections = NoBatch)

\* a second run, started over the results of the first, ended in an error
C30_Witness ==
    /\ runs = 2
    /\ pending = {}
    /\ status = "ERROR"
    /\ errorMsg # NoError
    /\ lastGood.some
    /\ responseText = <<>>
    /\ parsedDetections = NoBatch

============================================================================
